---- MODULE Spec2Model ----
(***************************************************************************)
(* A model of the serde_bin byte codec: the BytesSerializer of             *)
(* transform/src/ser.rs, the BytesDeserializer of transform/src/de.rs and  *)
(* the harness of vm/src/main.rs that encodes a value and decodes it back. *)
(* Both directions are recursive in the source; here the recursion is an   *)
(* explicit stack of pending calls, one model step per serde call.         *)
(***************************************************************************)
EXTENDS Integers, Naturals, Sequences, FiniteSets, TLC

VARIABLES
    pc,           \* harness position: "idle", "ser", "ret", "de", "done"
    cur,          \* the harness's current case: shape, value, entry point, the
                  \* data given to load, the result of a first decode
    ser_buffer,   \* BytesSerializer.buffer
    ser_offsets,  \* BytesSerializer.offsets
    ser_stack,    \* pending serde calls of the running to_bytes
    ser_calls,    \* to_bytes calls made on this BytesSerializer instance
    ser_result,   \* what the last to_bytes returned
    de_buffer,    \* BytesDeserializer.buffer
    de_position,  \* BytesDeserializer.position
    de_offsets,   \* BytesDeserializer.offsets
    de_stack,     \* pending serde calls / open accessors of the running from_bytes
    de_ret,       \* value handed back by the call that just returned
    de_input,     \* where the decoded bytes came from: "exact", "corrupt", "raw", "load",
                  \* "again" (the bytes of the decode before, on the same instance)
    de_result     \* what the last from_bytes returned

vars == <<pc, cur, ser_buffer, ser_offsets, ser_stack, ser_calls, ser_result,
          de_buffer, de_position, de_offsets, de_stack, de_ret, de_input, de_result>>

ser_vars == <<ser_buffer, ser_offsets, ser_stack, ser_calls, ser_result>>

de_vars == <<de_buffer, de_position, de_offsets, de_stack, de_ret, de_input, de_result>>

-----------------------------------------------------------------------------
(* Bounds of the model *)

\* longest sequence and largest map handed to the encoder
MaxElems == 2

\* to_bytes calls made on one BytesSerializer instance before it is dropped
MaxCalls == 2

\* longest raw (not encoder made) buffer handed to from_bytes
MaxRawLen == 3

\* longest encoding that is handed to from_bytes cut short or with a byte changed
MaxCorruptLen == 12

(* Program constants *)

\* u8::MAX, the largest variant index the encoder writes
U8Max == 255

\* variants of the wide enum: more than a byte can index
WideVariants == 300

-----------------------------------------------------------------------------
(* Shapes: what a type tells serde about itself *)

SupportedScalars == {"bool", "u8", "u32"}

UnsupportedScalars ==
    {"i8", "i16", "i32", "i64", "u16", "u64", "f32", "f64", "char", "str", "bytes"}

DecodeOnlyKinds == {"any", "identifier", "ignored_any"}

ContainerKinds == {"seq", "tuple", "tuple_struct", "struct", "map"}

Sh(k, sub) == [k |-> k, nv |-> Len(sub), sub |-> sub]

Wide(variant) == [k |-> "enum", nv |-> WideVariants, sub |-> <<variant>>]

TBool == Sh("bool", <<>>)
TU8 == Sh("u8", <<>>)
TU32 == Sh("u32", <<>>)
TI32 == Sh("i32", <<>>)
TString == Sh("str", <<>>)
TUnit == Sh("unit", <<>>)
TUnitStruct == Sh("unit_struct", <<>>)
TOptionU8 == Sh("option", <<TU8>>)
TNewType == Sh("newtype_struct", <<TU32>>)
TUnitVariant == Sh("enum", <<Sh("unit_variant", <<>>)>>)
TNewTypeVariant == Sh("enum", <<Sh("newtype_variant", <<TU32>>)>>)
TVecU32 == Sh("seq", <<TU32>>)
TTuple == Sh("tuple", <<TU8, TU32>>)
TTupleStruct == Sh("tuple_struct", <<TU8, TU32>>)
TTupleVariant == Sh("enum", <<Sh("unit_variant", <<>>), Sh("tuple_variant", <<TU8, TU32>>)>>)
TMapU8U8 == Sh("map", <<TU8, TU8>>)
TStruct == Sh("struct", <<TU8, TU32>>)
TStructVariant == Sh("enum", <<Sh("struct_variant", <<TU8, TU32>>), Sh("unit_variant", <<>>)>>)

\* the types the harness of main.rs encodes
MainShapes ==
    {TString, TOptionU8, TUnit, TUnitStruct, TUnitVariant, TNewType, TNewTypeVariant,
     TVecU32, TTuple, TTupleStruct, TTupleVariant, TMapU8U8, TStruct, TStructVariant}

\* the same kinds nested in each other
NestedShapes ==
    {TBool, TU8, TU32,
     Sh("option", <<TBool>>),
     Sh("option", <<TOptionU8>>),
     Sh("option", <<TI32>>),
     Sh("option", <<TNewTypeVariant>>),
     Sh("newtype_struct", <<TTuple>>),
     Sh("seq", <<TUnit>>),
     Sh("seq", <<TUnitVariant>>),
     Sh("seq", <<TNewTypeVariant>>),
     Sh("seq", <<Sh("seq", <<TUnit>>)>>),
     Sh("tuple", <<TNewTypeVariant, TU8>>),
     Sh("tuple", <<TU8, TTupleVariant>>),
     Sh("struct", <<TU8, TI32>>),
     Sh("struct", <<TStructVariant, TOptionU8>>),
     Sh("map", <<TU8, TString>>),
     Sh("enum", <<Sh("newtype_variant", <<TVecU32>>)>>),
     Sh("enum", <<Sh("tuple_variant", <<TU8, TString>>)>>)}

\* enums with more variants than a byte can index
WideShapes ==
    {Wide(Sh("unit_variant", <<>>)),
     Wide(Sh("newtype_variant", <<TU8>>)),
     Wide(Sh("tuple_variant", <<TU8, TU8>>)),
     Wide(Sh("struct_variant", <<TU8, TU8>>))}

\* scalar requests outside the closed set, one per serde method
ScalarShapes == { Sh(k, <<>>) : k \in UnsupportedScalars \cup DecodeOnlyKinds }

Shapes == MainShapes \cup NestedShapes \cup WideShapes \cup ScalarShapes

\* the variant of enum shape sh that has index i (the variants past the listed
\* ones all look like the last listed one)
VariantAt(sh, i) ==
    IF i + 1 <= Len(sh.sub) THEN sh.sub[i + 1] ELSE sh.sub[Len(sh.sub)]

\* the variant indices the model hands to the encoder for enum shape sh
VariantIdxs(sh) ==
    (0 .. (Len(sh.sub) - 1))
        \cup (IF sh.nv > Len(sh.sub) THEN {U8Max, U8Max + 1, sh.nv - 1} ELSE {})

-----------------------------------------------------------------------------
(* Values *)

Val(k, n, sub) == [k |-> k, n |-> n, sub |-> sub]

NoValue == Val("none", 0, <<>>)

NoShape == [k |-> "none", nv |-> 0, sub |-> <<>>]

U8Vals == {0, 1}

U32Vals == {1, 300}

SeqsUpTo(S, n) == UNION { [1 .. m -> S] : m \in 0 .. n }

RECURSIVE Flatten(_)
Flatten(pairs) ==
    IF Len(pairs) = 0 THEN <<>>
    ELSE <<pairs[1][1], pairs[1][2]>> \o Flatten([i \in 1 .. (Len(pairs) - 1) |-> pairs[i + 1]])

RECURSIVE ValuesOf(_)
RECURSIVE ProductOf(_)
ProductOf(shs) ==
    IF shs = <<>> THEN {<<>>}
    ELSE { <<h>> \o t : h \in ValuesOf(Head(shs)), t \in ProductOf(Tail(shs)) }

\* the values of a shape that the harness hands to to_bytes
ValuesOf(sh) ==
    CASE sh.k = "bool" -> { Val("bool", n, <<>>) : n \in {0, 1} }
      [] sh.k = "u8" -> { Val("u8", n, <<>>) : n \in U8Vals }
      [] sh.k = "u32" -> { Val("u32", n, <<>>) : n \in U32Vals }
      [] sh.k \in UnsupportedScalars -> { Val(sh.k, 0, <<>>) }
      [] sh.k \in DecodeOnlyKinds -> {}
      [] sh.k \in {"unit", "unit_struct"} -> { Val(sh.k, 0, <<>>) }
      [] sh.k = "option" ->
            { Val("option", 0, <<>>) }
                \cup { Val("option", 1, <<v>>) : v \in ValuesOf(sh.sub[1]) }
      [] sh.k = "newtype_struct" ->
            { Val("newtype_struct", 0, <<v>>) : v \in ValuesOf(sh.sub[1]) }
      [] sh.k = "seq" ->
            { Val("seq", 0, s) : s \in SeqsUpTo(ValuesOf(sh.sub[1]), MaxElems) }
      [] sh.k \in {"tuple", "tuple_struct", "struct"} ->
            { Val(sh.k, 0, s) : s \in ProductOf(sh.sub) }
      [] sh.k = "map" ->
            { Val("map", 0, Flatten(s)) :
                s \in { p \in SeqsUpTo(ValuesOf(sh.sub[1]) \X ValuesOf(sh.sub[2]), MaxElems) :
                          \A i, j \in DOMAIN p : p[i][1] = p[j][1] => i = j } }
      [] sh.k = "enum" ->
            UNION { { Val("enum", i, s) : s \in ProductOf(VariantAt(sh, i).sub) } :
                    i \in VariantIdxs(sh) }

Cases == UNION { { [sh |-> sh, v |-> v] : v \in ValuesOf(sh) } : sh \in Shapes }

\* the values the harness encodes one after the other on one BytesSerializer
MethodShapes ==
    {TString, TU8, TOptionU8, TVecU32, TMapU8U8, TNewTypeVariant,
     Sh("option", <<TI32>>),
     Sh("struct", <<TU8, TI32>>),
     Sh("seq", <<TNewTypeVariant>>),
     Wide(Sh("unit_variant", <<>>))}

MethodCases == { c \in Cases : c.sh \in MethodShapes }

\* what to_bytes, from_bytes and load hand back
NoResult == [st |-> "none", err |-> "", bytes |-> <<>>, val |-> NoValue]

OkBytes(b) == [st |-> "ok", err |-> "", bytes |-> b, val |-> NoValue]

OkValue(v) == [st |-> "ok", err |-> "", bytes |-> <<>>, val |-> v]

Err(e) == [st |-> "err", err |-> e, bytes |-> <<>>, val |-> NoValue]

Panic == [st |-> "panic", err |-> "", bytes |-> <<>>, val |-> NoValue]

Case(c, api) == [sh |-> c.sh, v |-> c.v, api |-> api, data |-> <<>>, first |-> NoResult]

NoCase == [sh |-> NoShape, v |-> NoValue, api |-> "none", data |-> <<>>, first |-> NoResult]

\* T::default() where the standard library or a derive gives one
RECURSIVE DefaultOf(_)
DefaultOf(sh) ==
    CASE sh.k \in {"seq", "map"} -> Val(sh.k, 0, <<>>)
      [] sh.k = "option" -> Val("option", 0, <<>>)
      [] sh.k \in {"newtype_struct", "tuple", "tuple_struct", "struct"} ->
            Val(sh.k, 0, [i \in 1 .. Len(sh.sub) |-> DefaultOf(sh.sub[i])])
      [] OTHER -> Val(sh.k, 0, <<>>)

\* T: Default -- every scalar and collection, and a product of such types
RECURSIVE HasDefault(_)
HasDefault(sh) ==
    /\ sh.k \notin DecodeOnlyKinds \cup {"enum"}
    /\ sh.k \in {"newtype_struct", "tuple", "tuple_struct", "struct"}
            => \A i \in 1 .. Len(sh.sub) : HasDefault(sh.sub[i])

\* the types load is called for
LoadShapes == { sh \in Shapes : HasDefault(sh) }

-----------------------------------------------------------------------------
(* Bytes *)

\* u32::to_le_bytes
to_le_bytes(n) ==
    <<n % 256, (n \div 256) % 256, (n \div 65536) % 256, (n \div 16777216) % 256>>

\* u32::from_le_bytes
from_le_bytes(b) == b[1] + 256 * b[2] + 65536 * b[3] + 16777216 * b[4]

-----------------------------------------------------------------------------
(* BytesSerializer *)

Task(op, sh, v) == [op |-> op, sh |-> sh, v |-> v]

EndTask == Task("end", NoShape, NoValue)

Top == Head(ser_stack)

Serializing(kinds) ==
    /\ pc = "ser"
    /\ ser_result.st = "none"
    /\ ser_stack # <<>>
    /\ Top.op = "ser"
    /\ Top.sh.k \in kinds

\* the shape of the i-th element, field or map key/value a container serializes
ElemShape(sh, i) ==
    CASE sh.k = "seq" -> sh.sub[1]
      [] sh.k = "map" -> sh.sub[IF i % 2 = 1 THEN 1 ELSE 2]
      [] OTHER -> sh.sub[i]

\* the serialize_element / serialize_field / serialize_key / serialize_value calls
\* the value's Serialize impl makes, in order
ChildTasks(sh, v) == [i \in 1 .. Len(v.sub) |-> Task("ser", ElemShape(sh, i), v.sub[i])]

start_bytelen_encoding(buf, offs) ==
    [buffer |-> buf \o to_le_bytes(0), offsets |-> Append(offs, Len(buf))]

\* buffer_len - offset - 4 is a usize subtraction: below zero it panics, or wraps
\* and the slice offset..offset+4 is out of range, which panics too
end_bytelen_encoding(buf, offs) ==
    LET offset == IF offs = <<>> THEN 0 ELSE offs[Len(offs)]
        popped == IF offs = <<>> THEN <<>> ELSE SubSeq(offs, 1, Len(offs) - 1)
        len == Len(buf) - offset - 4
    IN  IF len < 0
        THEN [panic |-> TRUE, buffer |-> buf, offsets |-> popped]
        ELSE [panic |-> FALSE,
              buffer |-> [i \in 1 .. Len(buf) |->
                            IF i \in (offset + 1) .. (offset + 4)
                            THEN to_le_bytes(len)[i - offset]
                            ELSE buf[i]],
              offsets |-> popped]

\* variant_index as u8
as_u8(n) == n % (U8Max + 1)

\* the check made after the cast instead of before it
VariantIndexFitsAfterCast(variant_index) == as_u8(variant_index) <= U8Max

\* variant_index <= u8::MAX as u32
VariantIndexFits(variant_index) == variant_index <= U8Max

\* an Err leaves the serde call tree at once: nothing of it is pending any more
SerFail(e) ==
    /\ ser_result' = Err(e)
    /\ ser_stack' = <<>>

ToBytesFn ==
    /\ pc = "idle"
    /\ \E c \in Cases :
        /\ cur' = Case(c, "fn")
        /\ ser_stack' = <<Task("ser", c.sh, c.v)>>
    /\ ser_buffer' = <<>>
    /\ ser_offsets' = <<>>
    /\ ser_calls' = 1
    /\ ser_result' = NoResult
    /\ pc' = "ser"
    /\ UNCHANGED de_vars

ToBytesMethod ==
    /\ pc = "idle"
    /\ ser_calls < MaxCalls
    /\ \E c \in MethodCases :
        /\ cur' = Case(c, "method")
        /\ ser_stack' = <<Task("ser", c.sh, c.v)>>
    /\ ser_calls' = ser_calls + 1
    /\ ser_result' = NoResult
    /\ pc' = "ser"
    /\ UNCHANGED <<ser_buffer, ser_offsets, de_vars>>

NewSerializer ==
    /\ pc = "idle"
    /\ ser_calls > 0
    /\ ser_buffer' = <<>>
    /\ ser_offsets' = <<>>
    /\ ser_calls' = 0
    /\ UNCHANGED <<pc, cur, ser_stack, ser_result, de_vars>>

SerializeScalar ==
    /\ Serializing(SupportedScalars)
    /\ ser_buffer' = ser_buffer \o
            (CASE Top.sh.k = "bool" -> <<IF Top.v.n = 1 THEN 1 ELSE 0>>
               [] Top.sh.k = "u8" -> <<Top.v.n>>
               [] Top.sh.k = "u32" -> to_le_bytes(Top.v.n))
    /\ ser_stack' = Tail(ser_stack)
    /\ UNCHANGED <<pc, cur, ser_offsets, ser_calls, ser_result, de_vars>>

\* an unsupported scalar that reserves its bytes before it gives up
SerializeUnsupportedWrites ==
    /\ Serializing(UnsupportedScalars)
    /\ SerFail("Unimplemented")
    /\ ser_buffer' = Append(ser_buffer, 0)
    /\ UNCHANGED <<pc, cur, ser_offsets, ser_calls, de_vars>>

SerializeUnsupported ==
    /\ Serializing(UnsupportedScalars)
    /\ SerFail("Unimplemented")
    /\ UNCHANGED <<pc, cur, ser_buffer, ser_offsets, ser_calls, de_vars>>

SerializeOption ==
    /\ Serializing({"option"})
    /\ IF Top.v.n = 0
       THEN /\ ser_buffer' = Append(ser_buffer, 0)
            /\ ser_stack' = Tail(ser_stack)
       ELSE /\ ser_buffer' = Append(ser_buffer, 1)
            /\ ser_stack' = <<Task("ser", Top.sh.sub[1], Top.v.sub[1])>> \o Tail(ser_stack)
    /\ UNCHANGED <<pc, cur, ser_offsets, ser_calls, ser_result, de_vars>>

\* a unit that is written as no byte at all
SerializeUnitWritesNothing ==
    /\ Serializing({"unit", "unit_struct"})
    /\ ser_stack' = Tail(ser_stack)
    /\ UNCHANGED <<pc, cur, ser_buffer, ser_offsets, ser_calls, ser_result, de_vars>>

SerializeUnit ==
    /\ Serializing({"unit", "unit_struct"})
    /\ ser_buffer' = Append(ser_buffer, 0)
    /\ ser_stack' = Tail(ser_stack)
    /\ UNCHANGED <<pc, cur, ser_offsets, ser_calls, ser_result, de_vars>>

SerializeNewtypeStruct ==
    /\ Serializing({"newtype_struct"})
    /\ ser_stack' = <<Task("ser", Top.sh.sub[1], Top.v.sub[1])>> \o Tail(ser_stack)
    /\ UNCHANGED <<pc, cur, ser_buffer, ser_offsets, ser_calls, ser_result, de_vars>>

SerializeContainer ==
    /\ Serializing(ContainerKinds)
    /\ LET s == start_bytelen_encoding(ser_buffer, ser_offsets)
       IN  /\ ser_buffer' = s.buffer
           /\ ser_offsets' = s.offsets
    /\ ser_stack' = ChildTasks(Top.sh, Top.v) \o <<EndTask>> \o Tail(ser_stack)
    /\ UNCHANGED <<pc, cur, ser_calls, ser_result, de_vars>>

\* the four serialize_*_variant methods: placeholder first, then the index check
SerializeVariant ==
    /\ Serializing({"enum"})
    /\ LET s == start_bytelen_encoding(ser_buffer, ser_offsets)
           variant == VariantAt(Top.sh, Top.v.n)
       IN  IF ~VariantIndexFits(Top.v.n)
           THEN /\ ser_buffer' = s.buffer
                /\ ser_offsets' = s.offsets
                /\ SerFail("InvalidData")
                /\ UNCHANGED pc
           ELSE CASE variant.k = "unit_variant" ->
                        LET e == end_bytelen_encoding(Append(s.buffer, as_u8(Top.v.n)), s.offsets)
                        IN  /\ ser_buffer' = e.buffer
                            /\ ser_offsets' = e.offsets
                            /\ IF e.panic
                               THEN /\ pc' = "ret"
                                    /\ ser_result' = Panic
                                    /\ ser_stack' = <<>>
                               ELSE /\ pc' = pc
                                    /\ ser_result' = ser_result
                                    /\ ser_stack' = Tail(ser_stack)
                  [] variant.k = "newtype_variant" ->
                        /\ ser_buffer' = Append(s.buffer, as_u8(Top.v.n))
                        /\ ser_offsets' = s.offsets
                        /\ ser_stack' = <<Task("ser", variant.sub[1], Top.v.sub[1])>>
                                            \o Tail(ser_stack)
                        /\ UNCHANGED <<pc, ser_result>>
                  [] variant.k \in {"tuple_variant", "struct_variant"} ->
                        /\ ser_buffer' = Append(s.buffer, as_u8(Top.v.n))
                        /\ ser_offsets' = s.offsets
                        /\ ser_stack' = ChildTasks(variant, Top.v) \o <<EndTask>>
                                            \o Tail(ser_stack)
                        /\ UNCHANGED <<pc, ser_result>>
    /\ UNCHANGED <<cur, ser_calls, de_vars>>

\* SerializeSeq::end and its six siblings
SerializeEnd ==
    /\ pc = "ser"
    /\ ser_result.st = "none"
    /\ ser_stack # <<>>
    /\ Top.op = "end"
    /\ LET e == end_bytelen_encoding(ser_buffer, ser_offsets)
       IN  /\ ser_buffer' = e.buffer
           /\ ser_offsets' = e.offsets
           /\ IF e.panic
              THEN /\ pc' = "ret"
                   /\ ser_result' = Panic
                   /\ ser_stack' = <<>>
              ELSE /\ pc' = pc
                   /\ ser_result' = ser_result
                   /\ ser_stack' = Tail(ser_stack)
    /\ UNCHANGED <<cur, ser_calls, de_vars>>

\* value.serialize(self)?; Ok(self.buffer.take()) -- and the free function's
\* serializer is a local that is gone when it returns
ToBytesReturn ==
    /\ pc = "ser"
    /\ ser_stack = <<>>
    /\ ser_result' = IF ser_result.st = "err" THEN ser_result ELSE OkBytes(ser_buffer)
    /\ IF cur.api \in {"fn", "load"}
       THEN /\ ser_buffer' = <<>>
            /\ ser_offsets' = <<>>
            /\ ser_calls' = 0
       ELSE /\ ser_buffer' = IF ser_result.st = "err" THEN ser_buffer ELSE <<>>
            /\ UNCHANGED <<ser_offsets, ser_calls>>
    /\ pc' = "ret"
    /\ UNCHANGED <<cur, ser_stack, de_vars>>

-----------------------------------------------------------------------------
(* BytesDeserializer *)

Frame(f, sh, idx, remaining, acc, before) ==
    [f |-> f, sh |-> sh, idx |-> idx, remaining |-> remaining, acc |-> acc, before |-> before]

Call(sh) == Frame("call", sh, 0, 0, <<>>, 0)

NoRet == [has |-> FALSE, v |-> NoValue]

Ret(v) == [has |-> TRUE, v |-> v]

DeTop == Head(de_stack)

Deserializing(kinds) ==
    /\ pc = "de"
    /\ de_stack # <<>>
    /\ ~de_ret.has
    /\ DeTop.f = "call"
    /\ DeTop.sh.k \in kinds

Returning(fs) ==
    /\ pc = "de"
    /\ de_stack # <<>>
    /\ de_ret.has
    /\ DeTop.f \in fs

\* a read without the end > buffer.len() test
read_bytes_unchecked(buf, pos, len) ==
    [ok |-> TRUE,
     bytes |-> [i \in 1 .. len |-> IF pos + i <= Len(buf) THEN buf[pos + i] ELSE 0],
     pos |-> pos + len]

read_bytes(buf, pos, len) ==
    IF pos + len > Len(buf)
    THEN [ok |-> FALSE, bytes |-> <<>>, pos |-> pos]
    ELSE [ok |-> TRUE, bytes |-> SubSeq(buf, pos + 1, pos + len), pos |-> pos + len]

read_byte(buf, pos) ==
    LET r == read_bytes(buf, pos, 1)
    IN  [ok |-> r.ok, n |-> IF r.ok THEN r.bytes[1] ELSE 0, pos |-> r.pos]

read_u32(buf, pos) ==
    LET r == read_bytes(buf, pos, 4)
    IN  [ok |-> r.ok, n |-> IF r.ok THEN from_le_bytes(r.bytes) ELSE 0, pos |-> r.pos]

\* a match that takes every byte but 0 for present
option_tag_nonzero(byte) == IF byte = 0 THEN "none" ELSE "some"

\* the match on the discriminant byte of an optional
option_tag(byte) ==
    CASE byte = 0 -> "none"
      [] byte = 1 -> "some"
      [] OTHER -> "invalid"

\* the test on the byte of a unit or unit struct
unit_ok(byte) == byte = 0

\* a range test that lets the index one past the last variant through
VariantKnownOffByOne(sh, variant_index) == variant_index <= sh.nv

\* the derived enum visitor knows the variants 0 .. nv-1 and no other
VariantKnown(sh, variant_index) == variant_index < sh.nv

\* a usize budget is held modulo 2^64: a negative number r stands for the
\* wrapped value 2^64 + r, which no subtraction of the model can underflow again
Underflows(remaining, consumed) == remaining >= 0 /\ remaining < consumed

\* HashMap::insert: a key that is already there gets the new value
RECURSIVE insert(_, _, _)
insert(entries, key, value) ==
    IF entries = <<>> THEN <<key, value>>
    ELSE IF entries[1] = key THEN <<key, value>> \o SubSeq(entries, 3, Len(entries))
    ELSE <<entries[1], entries[2]>> \o insert(SubSeq(entries, 3, Len(entries)), key, value)

\* an Err leaves from_bytes at once; the offsets pushed on the way stay pushed
DeFail(e) ==
    /\ de_result' = Err(e)
    /\ de_stack' = <<>>
    /\ de_ret' = NoRet
    /\ pc' = "done"

DeReturn(v) ==
    /\ de_stack' = Tail(de_stack)
    /\ de_ret' = Ret(v)
    /\ UNCHANGED <<pc, de_result>>

CorruptBytes == {0, 1, 2, 100}

\* an encoding cut short, or with one byte changed
Corruptions(b) ==
    ({ SubSeq(b, 1, n) : n \in 0 .. (Len(b) - 1) }
        \cup { [b EXCEPT ![i] = x] : i \in 1 .. Len(b), x \in CorruptBytes }) \ {b}

RawInputs == SeqsUpTo({0, 1, 2, 100}, MaxRawLen) \cup {<<255>>, <<255, 0>>}

\* from_bytes: BytesDeserializer::new(), then the bytes go into its buffer
StartDecode(bytes, sh, input) ==
    /\ de_buffer' = bytes
    /\ de_position' = 0
    /\ de_offsets' = <<>>
    /\ de_stack' = <<Call(sh)>>
    /\ de_ret' = NoRet
    /\ de_input' = input
    /\ de_result' = NoResult
    /\ pc' = "de"

FromBytes ==
    /\ pc = "ret"
    /\ cur.api # "load"
    /\ ser_result.st = "ok"
    /\ StartDecode(ser_result.bytes, cur.sh, "exact")
    /\ UNCHANGED <<cur, ser_vars>>

FromBytesCorrupt ==
    /\ pc = "ret"
    /\ ser_result.st = "ok"
    /\ cur.api = "fn"
    /\ Len(ser_result.bytes) <= MaxCorruptLen
    /\ \E b \in Corruptions(ser_result.bytes) : StartDecode(b, cur.sh, "corrupt")
    /\ UNCHANGED <<cur, ser_vars>>

\* load, up to the to_bytes(&default) call
Load ==
    /\ pc = "idle"
    /\ ser_calls = 0
    /\ \E sh \in LoadShapes, data \in RawInputs :
        /\ cur' = [sh |-> sh, v |-> DefaultOf(sh), api |-> "load", data |-> data,
                    first |-> NoResult]
        /\ ser_stack' = <<Task("ser", sh, DefaultOf(sh))>>
    /\ ser_buffer' = <<>>
    /\ ser_offsets' = <<>>
    /\ ser_calls' = 1
    /\ ser_result' = NoResult
    /\ pc' = "ser"
    /\ UNCHANGED de_vars

\* the rest of load: the ? on to_bytes, the slice &data[..serialized.len()],
\* which panics when data is shorter than that, and from_bytes of the slice
LoadFromBytes ==
    /\ pc = "ret"
    /\ cur.api = "load"
    /\ IF ser_result.st # "ok"
       THEN /\ de_result' = ser_result
            /\ de_input' = "load"
            /\ pc' = "done"
            /\ UNCHANGED <<de_buffer, de_position, de_offsets, de_stack, de_ret>>
       ELSE IF Len(ser_result.bytes) > Len(cur.data)
       THEN /\ de_result' = Panic
            /\ de_input' = "load"
            /\ pc' = "done"
            /\ UNCHANGED <<de_buffer, de_position, de_offsets, de_stack, de_ret>>
       ELSE StartDecode(SubSeq(cur.data, 1, Len(ser_result.bytes)), cur.sh, "load")
    /\ UNCHANGED <<cur, ser_vars>>

FromBytesRaw ==
    /\ pc = "idle"
    /\ ser_calls = 0
    /\ \E b \in RawInputs, sh \in Shapes :
        /\ StartDecode(b, sh, "raw")
        /\ cur' = [sh |-> sh, v |-> NoValue, api |-> "none", data |-> <<>>,
                    first |-> NoResult]
    /\ UNCHANGED ser_vars

\* buffers of which any four bytes in a row are a u32 the model's integers hold
SmallBytes(b) == \A i \in DOMAIN b : b[i] <= 127

\* BytesDeserializer::from_bytes called once more on the instance of the decode
\* that just returned, with the same bytes: the buffer is cleared and filled,
\* position and offsets are what the first call left
FromBytesMethod ==
    /\ pc = "done"
    /\ de_input = "exact"
    /\ de_result.st \in {"ok", "err"}
    /\ SmallBytes(de_buffer)
    /\ cur' = [cur EXCEPT !.first = de_result]
    /\ de_buffer' = de_buffer
    /\ de_stack' = <<Call(cur.sh)>>
    /\ de_ret' = NoRet
    /\ de_input' = "again"
    /\ de_result' = NoResult
    /\ pc' = "de"
    /\ UNCHANGED <<ser_vars, de_position, de_offsets>>

DeserializeUnsupported ==
    /\ Deserializing(UnsupportedScalars \cup DecodeOnlyKinds)
    /\ DeFail("Unimplemented")
    /\ UNCHANGED <<cur, ser_vars, de_buffer, de_position, de_offsets, de_input>>

DeserializeBool ==
    /\ Deserializing({"bool"})
    /\ DeFail("Unimplemented")
    /\ UNCHANGED <<cur, ser_vars, de_buffer, de_position, de_offsets, de_input>>

DeserializeU8 ==
    /\ Deserializing({"u8"})
    /\ LET r == read_byte(de_buffer, de_position)
       IN  /\ de_position' = r.pos
           /\ IF r.ok THEN DeReturn(Val("u8", r.n, <<>>)) ELSE DeFail("Custom")
    /\ UNCHANGED <<cur, ser_vars, de_buffer, de_offsets, de_input>>

DeserializeU32 ==
    /\ Deserializing({"u32"})
    /\ LET r == read_u32(de_buffer, de_position)
       IN  /\ de_position' = r.pos
           /\ IF r.ok THEN DeReturn(Val("u32", r.n, <<>>)) ELSE DeFail("Custom")
    /\ UNCHANGED <<cur, ser_vars, de_buffer, de_offsets, de_input>>

DeserializeOption ==
    /\ Deserializing({"option"})
    /\ LET r == read_byte(de_buffer, de_position)
       IN  /\ de_position' = r.pos
           /\ IF ~r.ok THEN DeFail("Custom")
              ELSE IF option_tag(r.n) = "none" THEN DeReturn(Val("option", 0, <<>>))
              ELSE IF option_tag(r.n) = "some"
                   THEN /\ de_stack' = <<Call(DeTop.sh.sub[1]),
                                         Frame("some", DeTop.sh, 0, 0, <<>>, 0)>>
                                            \o Tail(de_stack)
                        /\ UNCHANGED <<pc, de_ret, de_result>>
              ELSE DeFail("Custom")
    /\ UNCHANGED <<cur, ser_vars, de_buffer, de_offsets, de_input>>

DeserializeUnit ==
    /\ Deserializing({"unit", "unit_struct"})
    /\ LET r == read_byte(de_buffer, de_position)
       IN  /\ de_position' = r.pos
           /\ IF r.ok /\ unit_ok(r.n) THEN DeReturn(Val(DeTop.sh.k, 0, <<>>)) ELSE DeFail("Custom")
    /\ UNCHANGED <<cur, ser_vars, de_buffer, de_offsets, de_input>>

DeserializeNewtypeStruct ==
    /\ Deserializing({"newtype_struct"})
    /\ de_stack' = <<Call(DeTop.sh.sub[1]), Frame("newtype", DeTop.sh, 0, 0, <<>>, 0)>>
                        \o Tail(de_stack)
    /\ UNCHANGED <<pc, cur, ser_vars, de_buffer, de_position, de_offsets, de_ret,
                   de_input, de_result>>

\* deserialize_seq, _tuple, _tuple_struct, _struct and _map up to the visitor call
DeserializeContainer ==
    /\ Deserializing(ContainerKinds)
    /\ LET r == read_u32(de_buffer, de_position)
       IN  /\ de_position' = r.pos
           /\ IF ~r.ok
              THEN /\ DeFail("Custom")
                   /\ UNCHANGED de_offsets
              ELSE /\ de_offsets' = Append(de_offsets, Len(de_buffer))
                   /\ de_stack' =
                        <<Frame(IF DeTop.sh.k = "map" THEN "map_access" ELSE "seq_access",
                                DeTop.sh, 0, r.n, <<>>, 0)>> \o Tail(de_stack)
                   /\ UNCHANGED <<pc, de_ret, de_result>>
    /\ UNCHANGED <<cur, ser_vars, de_buffer, de_input>>

\* deserialize_enum, the derived visitor's variant_seed, and the VariantAccess
\* method the derived visitor picks for the variant
DeserializeEnum ==
    /\ Deserializing({"enum"})
    /\ LET remaining == read_u32(de_buffer, de_position)
           variant_index == read_byte(de_buffer, remaining.pos)
           variant == VariantAt(DeTop.sh, variant_index.n)
       IN  IF ~remaining.ok \/ ~variant_index.ok
           THEN /\ de_position' = variant_index.pos
                /\ DeFail("Custom")
                /\ UNCHANGED de_offsets
           ELSE /\ de_position' = variant_index.pos
                /\ IF ~VariantKnown(DeTop.sh, variant_index.n)
                   THEN /\ DeFail("Custom")
                        /\ UNCHANGED de_offsets
                   ELSE CASE variant.k = "unit_variant" ->
                                /\ DeReturn(Val("enum", variant_index.n, <<>>))
                                /\ UNCHANGED de_offsets
                          [] variant.k = "newtype_variant" ->
                                /\ de_stack' =
                                     <<Call(variant.sub[1]),
                                       Frame("newtype_variant", variant, variant_index.n,
                                             remaining.n, <<>>, 0)>> \o Tail(de_stack)
                                /\ UNCHANGED <<pc, de_ret, de_result, de_offsets>>
                          [] variant.k \in {"tuple_variant", "struct_variant"} ->
                                /\ de_offsets' = Append(de_offsets, Len(de_buffer))
                                /\ de_stack' =
                                     <<Frame("seq_access", variant, variant_index.n,
                                             remaining.n, <<>>, 0)>> \o Tail(de_stack)
                                /\ UNCHANGED <<pc, de_ret, de_result>>
    /\ UNCHANGED <<cur, ser_vars, de_buffer, de_input>>

\* visit_some, visit_newtype_struct, newtype_variant_seed: the inner value is back
VisitInner ==
    /\ Returning({"some", "newtype", "newtype_variant"})
    /\ DeReturn(CASE DeTop.f = "some" -> Val("option", 1, <<de_ret.v>>)
                  [] DeTop.f = "newtype" -> Val("newtype_struct", 0, <<de_ret.v>>)
                  [] DeTop.f = "newtype_variant" -> Val("enum", DeTop.idx, <<de_ret.v>>))
    /\ UNCHANGED <<cur, ser_vars, de_buffer, de_position, de_offsets, de_input>>

\* the value a finished SeqAccess visitor returns
SeqValue(fr) ==
    IF fr.sh.k \in {"tuple_variant", "struct_variant"}
    THEN Val("enum", fr.idx, fr.acc)
    ELSE Val(fr.sh.k, 0, fr.acc)

Pop(s) == SubSeq(s, 1, Len(s) - 1)

\* the visitor's next_element call, up to the element's own deserialize call: the
\* Vec visitor asks until it is told None, the tuple and struct visitors ask
\* once per field and take None for an error
NextElementSeed ==
    /\ pc = "de"
    /\ de_stack # <<>>
    /\ ~de_ret.has
    /\ DeTop.f = "seq_access"
    /\ LET asks == DeTop.sh.k = "seq" \/ Len(DeTop.acc) < Len(DeTop.sh.sub)
       IN  IF ~asks \/ (DeTop.remaining = 0 /\ DeTop.sh.k = "seq")
           THEN /\ de_offsets' = Pop(de_offsets)
                /\ DeReturn(SeqValue(DeTop))
           ELSE IF DeTop.remaining = 0
           THEN /\ DeFail("Custom")
                /\ UNCHANGED de_offsets
           ELSE /\ de_stack' =
                     <<Call(ElemShape(DeTop.sh, Len(DeTop.acc) + 1)),
                       [DeTop EXCEPT !.before = de_position]>> \o Tail(de_stack)
                /\ UNCHANGED <<pc, de_ret, de_result, de_offsets>>
    /\ UNCHANGED <<cur, ser_vars, de_buffer, de_position, de_input>>

\* an accessor that puts the cursor back where the element began and drops the
\* element: the visitor's loop makes no progress
NextElementDoneRewinds ==
    /\ Returning({"seq_access"})
    /\ de_position' = DeTop.before
    /\ de_ret' = NoRet
    /\ UNCHANGED <<pc, cur, ser_vars, de_buffer, de_offsets, de_stack, de_input, de_result>>

\* the rest of next_element_seed: the element is back, the budget pays for it
NextElementDone ==
    /\ Returning({"seq_access"})
    /\ LET consumed == de_position - DeTop.before
       IN  \/ /\ Underflows(DeTop.remaining, consumed)
              /\ de_result' = Panic
              /\ de_stack' = <<>>
              /\ de_ret' = NoRet
              /\ pc' = "done"
           \/ /\ de_stack' =
                    <<[DeTop EXCEPT !.remaining = @ - consumed,
                                    !.acc = Append(@, de_ret.v)]>> \o Tail(de_stack)
              /\ de_ret' = NoRet
              /\ UNCHANGED <<pc, de_result>>
    /\ UNCHANGED <<cur, ser_vars, de_buffer, de_position, de_offsets, de_input>>

\* the HashMap visitor's next_entry call: next_key_seed up to the key's deserialize
NextKeySeed ==
    /\ pc = "de"
    /\ de_stack # <<>>
    /\ ~de_ret.has
    /\ DeTop.f = "map_access"
    /\ IF DeTop.remaining = 0
       THEN /\ de_offsets' = Pop(de_offsets)
            /\ DeReturn(Val("map", 0, DeTop.acc))
       ELSE /\ de_stack' =
                 <<Call(DeTop.sh.sub[1]), [DeTop EXCEPT !.before = de_position]>>
                    \o Tail(de_stack)
            /\ UNCHANGED <<pc, de_ret, de_result, de_offsets>>
    /\ UNCHANGED <<cur, ser_vars, de_buffer, de_position, de_input>>

\* the key is back: the budget pays for it and next_value_seed asks for the value
NextValueSeed ==
    /\ Returning({"map_access"})
    /\ LET consumed == de_position - DeTop.before
       IN  \/ /\ Underflows(DeTop.remaining, consumed)
              /\ de_result' = Panic
              /\ de_stack' = <<>>
              /\ de_ret' = NoRet
              /\ pc' = "done"
           \/ /\ de_stack' =
                    <<Call(DeTop.sh.sub[2]),
                      [DeTop EXCEPT !.f = "map_value",
                                    !.remaining = @ - consumed,
                                    !.acc = <<de_ret.v>>  \o @,
                                    !.before = de_position]>> \o Tail(de_stack)
              /\ de_ret' = NoRet
              /\ UNCHANGED <<pc, de_result>>
    /\ UNCHANGED <<cur, ser_vars, de_buffer, de_position, de_offsets, de_input>>

\* the value is back: the budget pays for it and the entry goes into the map
NextValueDone ==
    /\ Returning({"map_value"})
    /\ LET consumed == de_position - DeTop.before
       IN  \/ /\ Underflows(DeTop.remaining, consumed)
              /\ de_result' = Panic
              /\ de_stack' = <<>>
              /\ de_ret' = NoRet
              /\ pc' = "done"
           \/ /\ de_stack' =
                    <<[DeTop EXCEPT !.f = "map_access",
                                    !.remaining = @ - consumed,
                                    !.acc = insert(Tail(@), Head(@), de_ret.v)]>>
                        \o Tail(de_stack)
              /\ de_ret' = NoRet
              /\ UNCHANGED <<pc, de_result>>
    /\ UNCHANGED <<cur, ser_vars, de_buffer, de_position, de_offsets, de_input>>

\* T::deserialize(self) came back with a value
FromBytesReturn ==
    /\ pc = "de"
    /\ de_stack = <<>>
    /\ de_ret.has
    /\ de_result' = OkValue(de_ret.v)
    /\ de_ret' = NoRet
    /\ pc' = "done"
    /\ UNCHANGED <<cur, ser_vars, de_buffer, de_position, de_offsets, de_stack, de_input>>

\* the harness is done with the results and turns to its next value
NextValue ==
    /\ pc \in {"ret", "done"}
    /\ pc' = "idle"
    /\ cur' = NoCase
    /\ ser_result' = NoResult
    /\ de_buffer' = <<>>
    /\ de_position' = 0
    /\ de_offsets' = <<>>
    /\ de_stack' = <<>>
    /\ de_ret' = NoRet
    /\ de_input' = "none"
    /\ de_result' = NoResult
    /\ UNCHANGED <<ser_buffer, ser_offsets, ser_stack, ser_calls>>

-----------------------------------------------------------------------------

Init ==
    /\ pc = "idle"
    /\ cur = NoCase
    /\ ser_buffer = <<>>
    /\ ser_offsets = <<>>
    /\ ser_stack = <<>>
    /\ ser_calls = 0
    /\ ser_result = NoResult
    /\ de_buffer = <<>>
    /\ de_position = 0
    /\ de_offsets = <<>>
    /\ de_stack = <<>>
    /\ de_ret = NoRet
    /\ de_input = "none"
    /\ de_result = NoResult

Next ==
    \/ ToBytesFn
    \/ Load
    \/ ToBytesMethod
    \/ NewSerializer
    \/ SerializeScalar
    \/ SerializeUnsupported
    \/ SerializeOption
    \/ SerializeUnit
    \/ SerializeNewtypeStruct
    \/ SerializeContainer
    \/ SerializeVariant
    \/ SerializeEnd
    \/ ToBytesReturn
    \/ FromBytes
    \/ FromBytesCorrupt
    \/ LoadFromBytes
    \/ FromBytesRaw
    \/ FromBytesMethod
    \/ DeserializeUnsupported
    \/ DeserializeBool
    \/ DeserializeU8
    \/ DeserializeU32
    \/ DeserializeOption
    \/ DeserializeUnit
    \/ DeserializeNewtypeStruct
    \/ DeserializeContainer
    \/ DeserializeEnum
    \/ VisitInner
    \/ NextElementSeed
    \/ NextElementDone
    \/ NextKeySeed
    \/ NextValueSeed
    \/ NextValueDone
    \/ FromBytesReturn
    \/ NextValue

Spec == Init /\ [][Next]_vars

\* the calls a running from_bytes is made of
DecodeStep ==
    \/ DeserializeUnsupported
    \/ DeserializeBool
    \/ DeserializeU8
    \/ DeserializeU32
    \/ DeserializeOption
    \/ DeserializeUnit
    \/ DeserializeNewtypeStruct
    \/ DeserializeContainer
    \/ DeserializeEnum
    \/ VisitInner
    \/ NextElementSeed
    \/ NextElementDone
    \/ NextKeySeed
    \/ NextValueSeed
    \/ NextValueDone
    \/ FromBytesReturn

\* from_bytes is straight-line single-threaded code: a call that can be made is made
FairSpec == Spec /\ WF_vars(DecodeStep)

-----------------------------------------------------------------------------
(* The wire layout of the data model, as the claims state it *)

\* no kind outside the supported set anywhere in the shape
RECURSIVE SupportedShape(_)
SupportedShape(sh) ==
    /\ sh.k \notin UnsupportedScalars \cup DecodeOnlyKinds
    /\ \A i \in 1 .. Len(sh.sub) : SupportedShape(sh.sub[i])

\* every variant index in the value fits a byte
RECURSIVE IndexesFit(_)
IndexesFit(v) ==
    /\ v.k = "enum" => v.n <= U8Max
    /\ \A i \in 1 .. Len(v.sub) : IndexesFit(v.sub[i])

\* the byte length of a value's encoding; PayloadLen is that of its first n parts
RECURSIVE EncodedLen(_, _)
RECURSIVE PayloadLen(_, _, _)
PayloadLen(sh, v, n) ==
    IF n = 0 THEN 0
    ELSE PayloadLen(sh, v, n - 1) + EncodedLen(ElemShape(sh, n), v.sub[n])

EncodedLen(sh, v) ==
    CASE sh.k \in {"bool", "u8", "unit", "unit_struct"} -> 1
      [] sh.k = "u32" -> 4
      [] sh.k = "option" -> IF v.n = 0 THEN 1 ELSE 1 + EncodedLen(sh.sub[1], v.sub[1])
      [] sh.k = "newtype_struct" -> EncodedLen(sh.sub[1], v.sub[1])
      [] sh.k \in ContainerKinds -> 4 + PayloadLen(sh, v, Len(v.sub))
      [] sh.k = "enum" -> 5 + PayloadLen(VariantAt(sh, v.n), v, Len(v.sub))

\* every length prefix inside the encoding of v, which starts at offset at of
\* bytes, holds the number of bytes from its own end to the end of its container
RECURSIVE PrefixesExact(_, _, _, _)
PrefixesExact(sh, v, bytes, at) ==
    /\ Len(bytes) >= at + EncodedLen(sh, v)
    /\ CASE sh.k = "option" ->
                v.n = 0 \/ PrefixesExact(sh.sub[1], v.sub[1], bytes, at + 1)
         [] sh.k = "newtype_struct" -> PrefixesExact(sh.sub[1], v.sub[1], bytes, at)
         [] sh.k \in ContainerKinds ->
                /\ from_le_bytes(SubSeq(bytes, at + 1, at + 4)) = EncodedLen(sh, v) - 4
                /\ \A i \in 1 .. Len(v.sub) :
                      PrefixesExact(ElemShape(sh, i), v.sub[i], bytes,
                                    at + 4 + PayloadLen(sh, v, i - 1))
         [] sh.k = "enum" ->
                /\ from_le_bytes(SubSeq(bytes, at + 1, at + 4)) = EncodedLen(sh, v) - 4
                /\ \A i \in 1 .. Len(v.sub) :
                      PrefixesExact(ElemShape(VariantAt(sh, v.n), i), v.sub[i], bytes,
                                    at + 5 + PayloadLen(VariantAt(sh, v.n), v, i - 1))
         [] OTHER -> TRUE

-----------------------------------------------------------------------------
(* Claims *)

\* C1: round trip. For every supported shape and every value of it whose
\* variant indices fit a byte, to_bytes succeeds, and from_bytes of the bytes it
\* returned succeeds and gives the value back.
C1_RoundTrip ==
    /\ (pc = "ret" /\ cur.api = "fn" /\ SupportedShape(cur.sh) /\ IndexesFit(cur.v))
            => ser_result.st = "ok"
    /\ (pc = "done" /\ cur.api = "fn" /\ de_input = "exact" /\ SupportedShape(cur.sh))
            => (de_result.st = "ok" /\ de_result.val = cur.v)

\* C2: length-prefix exactness. In the bytes a successful to_bytes returns,
\* every 4-byte prefix of a container or variant, at any depth, holds the number
\* of bytes between the end of the prefix and the end of that container or variant.
C2_PrefixExact ==
    (pc = "ret" /\ cur.api = "fn" /\ ser_result.st = "ok")
        => PrefixesExact(cur.sh, cur.v, ser_result.bytes, 0)

\* C3: closed-set rejection. A serialize or deserialize call for a scalar kind
\* outside the supported set returns Error::Unimplemented and changes nothing:
\* no byte appended, no offset pushed, the cursor where it was.
C3_ClosedSetRejection ==
    [][ /\ Serializing(UnsupportedScalars)
            => /\ ser_result' = Err("Unimplemented")
               /\ ser_buffer' = ser_buffer
               /\ ser_offsets' = ser_offsets
        /\ Deserializing(UnsupportedScalars \cup DecodeOnlyKinds)
            => /\ de_result' = Err("Unimplemented")
               /\ de_buffer' = de_buffer
               /\ de_position' = de_position
               /\ de_offsets' = de_offsets ]_vars

\* an unsupported scalar was refused inside a container, after bytes were written
C3_Witness ==
    /\ pc = "ser"
    /\ ser_result = Err("Unimplemented")
    /\ Len(ser_buffer) > 4
    /\ ser_offsets # <<>>

\* the bytes a scalar kind takes on the wire
ScalarWidth(k) == IF k = "u32" THEN 4 ELSE 1

\* C4: scalar decode mirrors the encoder's closed set. A deserialize call for
\* bool, u8 or u32 with enough bytes left returns a value and moves the cursor by
\* 1, 1 and 4 bytes.
C4_ScalarDecode ==
    [][ (/\ Deserializing(SupportedScalars)
         /\ de_position + ScalarWidth(DeTop.sh.k) <= Len(de_buffer))
            => /\ de_ret'.has
               /\ de_ret'.v.k = DeTop.sh.k
               /\ de_position' = de_position + ScalarWidth(DeTop.sh.k) ]_vars

\* C5: a failed encode discards its partial output. Between two to_bytes calls
\* the instance holds no byte, and a first call that failed leaves no pending
\* offset, so the next call starts from what a fresh instance has.
C5_FailedEncodeDiscards ==
    /\ pc = "idle" => ser_buffer = <<>>
    /\ (pc = "ret" /\ ser_result.st = "err" /\ ser_calls = 1) => ser_offsets = <<>>

C7_VariantIndexDecode ==
    [][ (/\ Deserializing({"enum"})
         /\ de_position + 5 <= Len(de_buffer)
         /\ de_buffer[de_position + 5] \notin 0 .. (DeTop.sh.nv - 1))
            => /\ de_result' = Err("Custom")
               /\ ~de_ret'.has
               /\ pc' = "done" ]_vars

\* an enum of two variants was refused on index byte 2
C7_Witness ==
    /\ pc = "done"
    /\ cur.sh = TTupleVariant
    /\ Len(de_buffer) >= 5
    /\ de_buffer[5] = 2
    /\ de_position = 5
    /\ de_result = Err("Custom")

\* the bytes a deserialize call reads before anything else
FirstRead(k) ==
    CASE k \in {"u8", "option", "unit", "unit_struct"} -> 1
      [] k \in {"u32"} \cup ContainerKinds -> 4
      [] k = "enum" -> 5
      [] OTHER -> 0

\* C8: no read past the end. In every state of a decode the cursor is within
\* 0 .. buffer length, and a deserialize call that needs more bytes than are left
\* fails the whole decode with a Custom error and returns no value.
C8_NoReadPastEnd ==
    /\ [](0 <= de_position /\ de_position <= Len(de_buffer))
    /\ [][ (/\ pc = "de"
            /\ de_stack # <<>>
            /\ ~de_ret.has
            /\ DeTop.f = "call"
            /\ de_position + FirstRead(DeTop.sh.k) > Len(de_buffer))
                => /\ de_result' = Err("Custom")
                   /\ ~de_ret'.has
                   /\ pc' = "done" ]_vars

\* a sequence of u32 was cut two bytes into its first element
C8_Witness ==
    /\ pc = "done"
    /\ cur.sh = TVecU32
    /\ de_input = "corrupt"
    /\ Len(de_buffer) = 6
    /\ de_position = 4
    /\ de_result = Err("Custom")

\* C9: invalid discriminant bytes. For an optional, byte 0 gives absent, byte 1
\* gives present with the payload decoded next, any other byte fails with a
\* Custom error; for unit and unit struct, byte 0 gives the unit value and any
\* other byte fails with a Custom error.
C9_Discriminants ==
    [][ /\ (Deserializing({"option"}) /\ de_position < Len(de_buffer))
            => LET byte == de_buffer[de_position + 1]
               IN  CASE byte = 0 -> de_ret' = Ret(Val("option", 0, <<>>))
                     [] byte = 1 -> /\ de_result'.st = "none"
                                    /\ de_position' = de_position + 1
                                    /\ Head(de_stack') = Call(DeTop.sh.sub[1])
                                    /\ de_stack'[2].f = "some"
                     [] OTHER -> de_result' = Err("Custom") /\ ~de_ret'.has
        /\ (Deserializing({"unit", "unit_struct"}) /\ de_position < Len(de_buffer))
            => LET byte == de_buffer[de_position + 1]
               IN  IF byte = 0
                   THEN de_ret' = Ret(Val(DeTop.sh.k, 0, <<>>))
                   ELSE de_result' = Err("Custom") /\ ~de_ret'.has ]_vars

\* an optional was refused on discriminant byte 255
C9_Witness ==
    /\ pc = "done"
    /\ cur.sh = TOptionU8
    /\ de_buffer = <<255>>
    /\ de_position = 1
    /\ de_result = Err("Custom")

\* C10: encoding a map whose keys and values are u8 returns an error.
C10_MapEncodeFails ==
    (pc = "ret" /\ cur.sh = TMapU8U8) => ser_result.st = "err"

\* C11: load. With n the length of the encoding of T::default(), load(data)
\* is from_bytes of the first n bytes of data, whatever follows them; data
\* shorter than n bytes gives the truncated-buffer error.
C11_Load ==
    (pc = "done" /\ cur.api = "load" /\ ser_result.st = "ok")
        => IF Len(cur.data) < Len(ser_result.bytes)
           THEN de_result = Err("Custom")
           ELSE de_buffer = SubSeq(cur.data, 1, Len(ser_result.bytes))

\* C12: budget exhaustion. Every container decode that hands a value back
\* (sequence, tuple, tuple struct, struct, map, field list of a tuple or struct
\* variant) does so with a remaining budget of exactly 0.
C12_BudgetExhausted ==
    [][ (/\ pc = "de"
         /\ de_stack # <<>>
         /\ ~de_ret.has
         /\ DeTop.f \in {"seq_access", "map_access"}
         /\ de_ret'.has)
            => DeTop.remaining = 0 ]_vars

\* C13: over-budget consumption is a failure. When an element, key or value
\* decoded inside a container took no byte or more bytes than the budget had
\* left, the decode fails with a Custom error; no budget is ever negative or
\* wrapped.
C13_OverBudgetFails ==
    /\ [](\A i \in DOMAIN de_stack : de_stack[i].remaining >= 0)
    /\ [][ (/\ Returning({"seq_access", "map_access", "map_value"})
            /\ \/ de_position - DeTop.before = 0
               \/ de_position - DeTop.before > DeTop.remaining)
                => /\ de_result' = Err("Custom")
                   /\ ~de_ret'.has
                   /\ pc' = "done" ]_vars

\* the containers and variants the running encode has opened and not yet closed
OpenContainers == Cardinality({ i \in DOMAIN ser_stack : ser_stack[i].op = "end" })

\* C14: backpatch stack discipline. While an encode on a fresh instance runs,
\* the offset stack holds one entry per open container or variant, and it is
\* empty when the value's serialize call has returned without an error.
C14_BackpatchStack ==
    (pc = "ser" /\ cur.api = "fn" /\ ser_result.st = "none")
        => /\ Len(ser_offsets) = OpenContainers
           /\ ser_stack = <<>> => ser_offsets = <<>>

\* C15: decoder state is reset per top-level decode. Every from_bytes call
\* starts at cursor 0 with an empty context stack, and a second decode of the
\* same bytes on one instance returns what the first returned.
C15_DecoderReset ==
    /\ (pc = "de" /\ de_stack = <<Call(cur.sh)>> /\ ~de_ret.has)
            => (de_position = 0 /\ de_offsets = <<>>)
    /\ (pc = "done" /\ de_input = "again") => de_result = cur.first

C17_NonZeroSize ==
    /\ (pc = "ret" /\ cur.api \in {"fn", "load"} /\ ser_result.st = "ok")
            => Len(ser_result.bytes) >= 1
    /\ Returning({"seq_access", "map_access", "map_value"})
            => de_position - DeTop.before >= 1

\* a sequence of two units, one byte each, came back from its own encoding
C17_Witness ==
    /\ pc = "done"
    /\ cur.sh = Sh("seq", <<TUnit>>)
    /\ Len(cur.v.sub) = 2
    /\ de_input = "exact"
    /\ de_position = 6
    /\ de_result = OkValue(cur.v)

====
